---- MODULE Spec2Model ----
(***************************************************************************)
(* A model of relenv's runtime relocation layer (src/relenv/runtime.py):   *)
(* the RelenvImporter probe/load protocol driven by the host import        *)
(* machinery, the bootstrap routine, and the patch wrappers.               *)
(*                                                                         *)
(* Module names and filesystem paths are sequences of string pieces whose  *)
(* concatenation is the Python string, so that str.startswith and          *)
(* pathlib's parent / joinpath are computed, not assumed.                  *)
(***************************************************************************)
EXTENDS Integers, Sequences, FiniteSets, TLC

VARIABLES
    importer,        \* the RelenvImporter instance's loading_* attributes
    modules,         \* sys.modules: name -> module object (NoModule when absent)
    applied,         \* per real module object: how many times its patch was applied
    stack,           \* call stack of the import machinery (load_module / module body frames)
    last,            \* the most recent find_module / load_module call and its outcome
    matches,         \* per target: find_module calls that returned the importer
    loads,           \* per target: load_module calls that completed
    platform,        \* sys.platform
    environ,         \* os.environ: a function whose domain is the set variables
    environ0,        \* os.environ as it was when bootstrap was entered
    sys_prefix,      \* sys.prefix
    sys_exec_prefix, \* sys.exec_prefix
    sys_path,        \* sys.path
    meta_path,       \* sys.meta_path
    boot,            \* bootstrap: "start", "done" (returned) or "raised"
    which_calls,     \* shutil.which("openssl") calls made
    run_calls,       \* subprocess.run calls made
    ret,             \* the last call of bootstrap or of a patched function: its inputs and result
    include_dirs,    \* build_ext.include_dirs of the command being finalized
    branch,          \* per patch: the RELENV_PIP_DIR branch its last call took
    calls,           \* calls made to the original installer and to relocate.handle_elf
    inst             \* the installation a wrapped installer was last called for

importVars == <<importer, modules, applied, stack, last, matches, loads>>

procVars == <<platform, environ, environ0, sys_prefix, sys_exec_prefix,
              sys_path, meta_path, boot, which_calls, run_calls>>

extVars == <<include_dirs, branch, calls, inst>>

vars == <<importVars, procVars, ret, extVars>>

(***************************************************************************)
(* Names                                                                   *)
(***************************************************************************)
SYSCONFIG      == <<"sys", "config">>
SYSCONFIGDATA  == <<"sys", "config", "data">>
SYS            == <<"sys">>
PIP_SCRIPTS    == <<"pip._vendor.distlib.scripts">>
DISTUTILS      == <<"distutils.command.build_ext">>
OP_WHEEL       == <<"pip._internal.operations.install.wheel">>
OP_LEGACY      == <<"pip._internal.operations.install.legacy">>

Names == {SYSCONFIG, SYSCONFIGDATA, SYS, PIP_SCRIPTS, DISTUTILS, OP_WHEEL, OP_LEGACY}

NoModule == <<>>

Targets == {"sysconfig", "pip_scripts", "distutils", "op_wheel", "op_legacy"}

\* str.startswith
StartsWith(s, p) == Len(s) >= Len(p) /\ SubSeq(s, 1, Len(p)) = p

\* The class attributes every new RelenvImporter starts from.
RelenvImporter ==
    [loading_pip_scripts    |-> FALSE,
     loading_sysconfig_data |-> FALSE,
     loading_sysconfig      |-> FALSE,
     loading_distutils      |-> FALSE,
     loading_op_wheel       |-> FALSE,
     loading_op_legacy      |-> FALSE]

\* Which branch of find_module / load_module a name takes.
Branch(name) ==
    IF StartsWith(name, SYSCONFIG) THEN "sysconfig"
    ELSE IF name = PIP_SCRIPTS THEN "pip_scripts"
    ELSE IF name = DISTUTILS THEN "distutils"
    ELSE IF name = OP_WHEEL THEN "op_wheel"
    ELSE IF name = OP_LEGACY THEN "op_legacy"
    ELSE "none"

\* The loading_* attribute that guards a branch.
Flag(self, t) ==
    CASE t = "sysconfig"   -> self.loading_sysconfig
      [] t = "pip_scripts" -> self.loading_pip_scripts
      [] t = "distutils"   -> self.loading_distutils
      [] t = "op_wheel"    -> self.loading_op_wheel
      [] t = "op_legacy"   -> self.loading_op_legacy
      [] OTHER             -> FALSE

\* find_module without the reentrancy guard of its install.wheel branch.
find_module_unguarded(self, module_name) ==
    IF StartsWith(module_name, SYSCONFIG) THEN
        IF self.loading_sysconfig
        THEN [ret |-> FALSE, self |-> self]
        ELSE [ret |-> TRUE, self |-> [self EXCEPT !.loading_sysconfig = TRUE]]
    ELSE IF module_name = PIP_SCRIPTS THEN
        IF self.loading_pip_scripts
        THEN [ret |-> FALSE, self |-> self]
        ELSE [ret |-> TRUE, self |-> [self EXCEPT !.loading_pip_scripts = TRUE]]
    ELSE IF module_name = DISTUTILS THEN
        IF self.loading_distutils
        THEN [ret |-> FALSE, self |-> self]
        ELSE [ret |-> TRUE, self |-> [self EXCEPT !.loading_distutils = TRUE]]
    ELSE IF module_name = OP_WHEEL THEN
        [ret |-> TRUE, self |-> [self EXCEPT !.loading_op_wheel = TRUE]]
    ELSE IF module_name = OP_LEGACY THEN
        IF self.loading_op_legacy
        THEN [ret |-> FALSE, self |-> self]
        ELSE [ret |-> TRUE, self |-> [self EXCEPT !.loading_op_legacy = TRUE]]
    ELSE [ret |-> FALSE, self |-> self]

\* find_module whose sysconfig branch returns self without setting its flag.
find_module_noset(self, module_name) ==
    IF StartsWith(module_name, SYSCONFIG) THEN
        IF self.loading_sysconfig
        THEN [ret |-> FALSE, self |-> self]
        ELSE [ret |-> TRUE, self |-> self]
    ELSE IF module_name = PIP_SCRIPTS THEN
        IF self.loading_pip_scripts
        THEN [ret |-> FALSE, self |-> self]
        ELSE [ret |-> TRUE, self |-> [self EXCEPT !.loading_pip_scripts = TRUE]]
    ELSE IF module_name = DISTUTILS THEN
        IF self.loading_distutils
        THEN [ret |-> FALSE, self |-> self]
        ELSE [ret |-> TRUE, self |-> [self EXCEPT !.loading_distutils = TRUE]]
    ELSE IF module_name = OP_WHEEL THEN
        IF self.loading_op_wheel
        THEN [ret |-> FALSE, self |-> self]
        ELSE [ret |-> TRUE, self |-> [self EXCEPT !.loading_op_wheel = TRUE]]
    ELSE IF module_name = OP_LEGACY THEN
        IF self.loading_op_legacy
        THEN [ret |-> FALSE, self |-> self]
        ELSE [ret |-> TRUE, self |-> [self EXCEPT !.loading_op_legacy = TRUE]]
    ELSE [ret |-> FALSE, self |-> self]

\* RelenvImporter.find_module: ret is TRUE when it returns self, FALSE for None.
find_module(self, module_name) ==
    IF StartsWith(module_name, SYSCONFIG) THEN
        IF self.loading_sysconfig
        THEN [ret |-> FALSE, self |-> self]
        ELSE [ret |-> TRUE, self |-> [self EXCEPT !.loading_sysconfig = TRUE]]
    ELSE IF module_name = PIP_SCRIPTS THEN
        IF self.loading_pip_scripts
        THEN [ret |-> FALSE, self |-> self]
        ELSE [ret |-> TRUE, self |-> [self EXCEPT !.loading_pip_scripts = TRUE]]
    ELSE IF module_name = DISTUTILS THEN
        IF self.loading_distutils
        THEN [ret |-> FALSE, self |-> self]
        ELSE [ret |-> TRUE, self |-> [self EXCEPT !.loading_distutils = TRUE]]
    ELSE IF module_name = OP_WHEEL THEN
        IF self.loading_op_wheel
        THEN [ret |-> FALSE, self |-> self]
        ELSE [ret |-> TRUE, self |-> [self EXCEPT !.loading_op_wheel = TRUE]]
    ELSE IF module_name = OP_LEGACY THEN
        IF self.loading_op_legacy
        THEN [ret |-> FALSE, self |-> self]
        ELSE [ret |-> TRUE, self |-> [self EXCEPT !.loading_op_legacy = TRUE]]
    ELSE [ret |-> FALSE, self |-> self]

\* The name load_module hands to importlib.import_module.
ImportTarget(name) ==
    IF StartsWith(name, SYSCONFIG) THEN SYSCONFIG ELSE name

\* The attribute writes of load_module after its patch: every branch but the
\* distutils one clears its flag.
load_module_flags(self, name) ==
    IF StartsWith(name, SYSCONFIG) THEN [self EXCEPT !.loading_sysconfig = FALSE]
    ELSE IF name = PIP_SCRIPTS THEN [self EXCEPT !.loading_pip_scripts = FALSE]
    ELSE IF name = DISTUTILS THEN self
    ELSE IF name = OP_WHEEL THEN [self EXCEPT !.loading_op_wheel = FALSE]
    ELSE IF name = OP_LEGACY THEN [self EXCEPT !.loading_op_legacy = FALSE]
    ELSE self

(***************************************************************************)
(* The host import machinery around the importer                           *)
(***************************************************************************)
Top == stack[Len(stack)]

Push(stk, frame) == Append(stk, frame)

Pop(stk) == SubSeq(stk, 1, Len(stk) - 1)

LoadFrame(name) == [op |-> "load_module", name |-> name, pc |-> "import"]

BodyFrame(name) == [op |-> "body", name |-> name, pc |-> "run"]

NoCall == [op |-> "none", name |-> NoModule, before |-> FALSE, ret |-> FALSE,
           mod |-> NoModule]

\* load_module with the install.wheel branch leaving `mod` unassigned.
load_module_bound_no_wheel(name) == Branch(name) \notin {"none", "op_wheel"}

\* Whether load_module has bound `mod` when it reaches
\* `sys.modules[name] = mod`: only a branch of the if / elif chain binds it.
load_module_bound(name) == Branch(name) # "none"

\* The outcome of a load_module call that raised UnboundLocalError.
LoadError(name) == [op |-> "load_module_error", name |-> name, before |-> FALSE,
                    ret |-> FALSE, mod |-> NoModule]

\* `import name` as the host performs it with the importer first on
\* sys.meta_path: a cached module is returned as is; otherwise find_module is
\* asked, and load_module is entered on a match, while on None the default
\* finders create the real module, cache it and run its body.
HostImport(name, stk) ==
    IF modules[name] # NoModule THEN
        /\ stack' = stk
        /\ last' = NoCall
        /\ UNCHANGED <<importer, modules, matches>>
    ELSE IF meta_path = <<>> \/ Head(meta_path) # "RelenvImporter" THEN
        /\ stack' = Push(stk, BodyFrame(name))
        /\ modules' = [modules EXCEPT ![name] = name]
        /\ last' = NoCall
        /\ UNCHANGED <<importer, matches>>
    ELSE
        LET r == find_module(importer, name)
            t == Branch(name)
        IN  /\ importer' = r.self
            /\ last' = [op |-> "find_module", name |-> name,
                        before |-> Flag(importer, t), ret |-> r.ret,
                        mod |-> NoModule]
            /\ IF r.ret
               THEN /\ stack' = Push(stk, LoadFrame(name))
                    /\ matches' = [matches EXCEPT ![t] = @ + 1]
                    /\ UNCHANGED modules
               ELSE /\ stack' = Push(stk, BodyFrame(name))
                    /\ modules' = [modules EXCEPT ![name] = name]
                    /\ UNCHANGED matches

\* Application code, or the body of a module being loaded, imports a name.
Import(name) ==
    /\ IF stack = <<>> THEN TRUE ELSE Top.op = "body"
    /\ HostImport(name, stack)
    /\ UNCHANGED <<applied, loads, procVars, ret, extVars>>

\* load_module up to and including its importlib.import_module call.
LoadModuleImport ==
    /\ stack # <<>>
    /\ Top.op = "load_module"
    /\ Top.pc = "import"
    /\ HostImport(ImportTarget(Top.name),
                  [stack EXCEPT ![Len(stack)].pc = "patch"])
    /\ UNCHANGED <<applied, loads, procVars, ret, extVars>>

\* The body of a module loaded by the default finders runs to its end.
BodyReturn ==
    /\ stack # <<>>
    /\ Top.op = "body"
    /\ stack' = Pop(stack)
    /\ last' = NoCall
    /\ UNCHANGED <<importer, modules, applied, matches, loads, procVars, ret, extVars>>

\* The rest of load_module: patch the imported module, clear the flag,
\* store the module under the requested name and return it.
LoadModuleFinish ==
    /\ stack # <<>>
    /\ Top.op = "load_module"
    /\ Top.pc = "patch"
    /\ LET name == Top.name
           mod  == modules[ImportTarget(name)]
       IN  IF load_module_bound(name)
           THEN /\ applied' = [applied EXCEPT ![mod] = @ + 1]
                /\ importer' = load_module_flags(importer, name)
                /\ modules' = [modules EXCEPT ![name] = mod]
                /\ loads' = [loads EXCEPT ![Branch(name)] = @ + 1]
                /\ last' = [op |-> "load_module", name |-> name, before |-> TRUE,
                            ret |-> TRUE, mod |-> mod]
           ELSE /\ last' = LoadError(name)
                /\ UNCHANGED <<applied, importer, modules, loads>>
    /\ stack' = Pop(stack)
    /\ UNCHANGED <<matches, procVars, ret, extVars>>

\* load_module called, outside the find_module protocol, with a name that
\* no branch handles: `sys.modules[name] = mod` reads the unbound local and
\* raises before anything is stored.
LoadModuleUnmatched(name) ==
    /\ IF stack = <<>> THEN TRUE ELSE Top.op = "body"
    /\ Branch(name) = "none"
    /\ ~load_module_bound(name)
    /\ last' = LoadError(name)
    /\ UNCHANGED <<importer, modules, applied, stack, matches, loads,
                   procVars, ret, extVars>>


(***************************************************************************)
(* Process state: strings, paths, os.environ                               *)
(***************************************************************************)
DefaultFinders == <<"BuiltinImporter", "FrozenImporter", "PathFinder">>

EmptyStr == <<>>

\* "name in os.environ"
InEnviron(env, name) == name \in DOMAIN env

\* bool(os.environ.get(name)): set, and not the empty string
Truthy(env, name) == name \in DOMAIN env /\ env[name] # EmptyStr

\* os.environ[name] = value
SetEnviron(env, name, value) == (name :> value) @@ env

\* pathlib: path / child, and path.parent (the root is its own parent)
JoinPath(path, child) == Append(path, child)

Parent(path) == IF Len(path) <= 1 THEN path ELSE SubSeq(path, 1, Len(path) - 1)

\* str.split(sep)
RECURSIVE Split(_, _)
Split(s, sep) ==
    IF \A i \in 1..Len(s) : s[i] # sep THEN <<s>>
    ELSE LET i == CHOOSE k \in 1..Len(s) :
                      s[k] = sep /\ \A j \in 1..(k - 1) : s[j] # sep
         IN  <<SubSeq(s, 1, i - 1)>> \o Split(SubSeq(s, i + 1, Len(s)), sep)

\* str.strip(chars)
RECURSIVE Strip(_, _)
Strip(s, chars) ==
    IF s = <<>> THEN s
    ELSE IF Head(s) \in chars THEN Strip(Tail(s), chars)
    ELSE IF s[Len(s)] \in chars THEN Strip(SubSeq(s, 1, Len(s) - 1), chars)
    ELSE s

Whitespace == {" ", "\n", "\t"}

\* pathlib.Path(cross).resolve(): a relative path is taken from the
\* working directory.
Cwd == <<"/", "home">>

Resolve(path) == IF Head(path) = "/" THEN path ELSE Cwd \o path

Pyver == "python3.10"

\* The cross-target block keeping every previous sys.path entry.
CrossPaths_keep_all(env, prefix, exec_prefix, path) ==
    IF Truthy(env, "RELENV_CROSS") THEN
        LET crossroot == Resolve(env["RELENV_CROSS"])
            lib == JoinPath(JoinPath(crossroot, "lib"), Pyver)
        IN  [prefix |-> crossroot,
             exec_prefix |-> crossroot,
             path |-> <<lib, JoinPath(lib, "lib-dynload"),
                        JoinPath(lib, "site-packages")>> \o path]
    ELSE [prefix |-> prefix, exec_prefix |-> exec_prefix, path |-> path]

\* The cross-target block of bootstrap: the new sys.prefix, sys.exec_prefix
\* and sys.path.
CrossPaths(env, prefix, exec_prefix, path) ==
    IF Truthy(env, "RELENV_CROSS") THEN
        LET crossroot == Resolve(env["RELENV_CROSS"])
            lib == JoinPath(JoinPath(crossroot, "lib"), Pyver)
        IN  [prefix |-> crossroot,
             exec_prefix |-> crossroot,
             path |-> <<lib, JoinPath(lib, "lib-dynload"),
                        JoinPath(lib, "site-packages")>>
                      \o SelectSeq(path,
                             LAMBDA e : \A i \in 1..Len(e) : e[i] # "site-packages")]
    ELSE [prefix |-> prefix, exec_prefix |-> exec_prefix, path |-> path]

\* The discovery guard testing the value of SSL_CERT_DIR, not its presence.
NeedsDiscovery_truthy(env, plat) == ~Truthy(env, "SSL_CERT_DIR") /\ plat # "win32"

\* The guard of the trust-store discovery block.
NeedsDiscovery(env, plat) == ~InEnviron(env, "SSL_CERT_DIR") /\ plat # "win32"

\* What bootstrap writes once openssl has answered with return code 0 and an
\* output that split into exactly two parts.
TrustStoreEnv(env, directory, cert_exists) ==
    LET path == Strip(Strip(directory, Whitespace), {"\""})
        env1 == IF ~Truthy(env, "SSL_CERT_DIR")
                THEN SetEnviron(env, "SSL_CERT_DIR", JoinPath(path, "certs"))
                ELSE env
        cert_file == JoinPath(path, "cert.pem")
    IN  IF cert_exists /\ ~Truthy(env1, "SSL_CERT_FILE")
        THEN SetEnviron(env1, "SSL_CERT_FILE", cert_file)
        ELSE env1

\* The trust-store block of bootstrap, given what the system answers:
\* whether shutil.which finds openssl, the return code and output of
\* `openssl version -d`, and whether cert.pem exists.
Discovery(env, plat, found, returncode, stdout, cert_exists) ==
    IF ~NeedsDiscovery(env, plat) THEN
        [environ |-> env, which |-> 0, run |-> 0, raised |-> FALSE]
    ELSE IF ~found THEN
        [environ |-> env, which |-> 1, run |-> 0, raised |-> FALSE]
    ELSE IF returncode # 0 THEN
        [environ |-> env, which |-> 1, run |-> 1, raised |-> FALSE]
    ELSE LET parts == Split(stdout, ":")
         IN  IF Len(parts) # 2 THEN
                 [environ |-> env, which |-> 1, run |-> 1, raised |-> TRUE]
             ELSE
                 [environ |-> TrustStoreEnv(env, parts[2], cert_exists),
                  which |-> 1, run |-> 1, raised |-> FALSE]

\* bootstrap(), with the system's answers as inputs.  An exception leaves
\* the function before the importer is created and installed.
Bootstrap(found, returncode, stdout, cert_exists) ==
    /\ boot = "start"
    /\ LET cross == CrossPaths(environ, sys_prefix, sys_exec_prefix, sys_path)
           d == Discovery(environ, platform, found, returncode, stdout, cert_exists)
       IN  /\ sys_prefix' = cross.prefix
           /\ sys_exec_prefix' = cross.exec_prefix
           /\ sys_path' = cross.path
           /\ environ' = d.environ
           /\ which_calls' = which_calls + d.which
           /\ run_calls' = run_calls + d.run
           /\ IF d.raised
              THEN /\ boot' = "raised"
                   /\ UNCHANGED <<importer, meta_path>>
              ELSE /\ boot' = "done"
                   /\ importer' = RelenvImporter
                   /\ meta_path' = <<"RelenvImporter">> \o meta_path
    /\ ret' = [fn |-> "bootstrap", prefix |-> sys_prefix,
               exec_prefix |-> sys_exec_prefix, path |-> sys_path]
    /\ UNCHANGED <<modules, applied, stack, last, matches, loads, platform,
                   environ0, extVars>>

(***************************************************************************)
(* Inputs                                                                  *)
(***************************************************************************)
Platforms == {"win32", "linux"}

StrValues == {EmptyStr, <<"/", "etc", "ssl">>}

CrossValues == {EmptyStr, <<"/", "cross">>, <<"cross">>}

\* Outputs of `openssl version -d`: the usual line, an empty output, and a
\* directory that itself holds a colon.
Stdouts ==
    { <<"OPENSSLDIR", ":", " ", "\"", "/usr/lib/ssl", "\"", "\n">>,
      <<>>,
      <<"OPENSSLDIR", ":", " ", "\"", "C", ":", "/ssl", "\"", "\n">> }

SysPaths ==
    { << <<"/", "opt", "lib", Pyver>>,
         <<"/", "opt", "lib", Pyver, "site-packages">>,
         <<"/", "app">>,
         <<"/", "opt", "lib", Pyver, "site-packages", "foo.egg">>,
         <<"/", "opt", "lib", Pyver, "lib-dynload">> >>,
      << <<"/", "app">> >> }

\* Every environment over the given variables: each is unset or has one of
\* the given values.
Environs(names, values) == UNION {[S -> values] : S \in SUBSET names}

NoRet == [fn |-> "none"]

NoBranch == [get_config_var |-> "none", get_paths |-> "none",
             build_shebang |-> "none"]

NoInstall == [fn |-> "none"]

ExtInit ==
    /\ include_dirs = <<>>
    /\ branch = NoBranch
    /\ calls = <<>>
    /\ inst = NoInstall

ImportInit ==
    /\ importer = RelenvImporter
    /\ modules = [n \in Names |-> IF n = SYS THEN SYS ELSE NoModule]
    /\ applied = [n \in Names |-> 0]
    /\ stack = <<>>
    /\ last = NoCall
    /\ matches = [t \in Targets |-> 0]
    /\ loads = [t \in Targets |-> 0]

(***************************************************************************)
(* Spec: the importer, installed by a bootstrap that returned, driven by   *)
(* the host's imports.                                                     *)
(***************************************************************************)
Init ==
    /\ ImportInit
    /\ platform = "linux"
    /\ environ = <<>>
    /\ environ0 = <<>>
    /\ sys_prefix = <<"/", "opt">>
    /\ sys_exec_prefix = <<"/", "opt">>
    /\ sys_path = << <<"/", "app">> >>
    /\ meta_path = <<"RelenvImporter">> \o DefaultFinders
    /\ boot = "done"
    /\ which_calls = 0
    /\ run_calls = 0
    /\ ret = NoRet
    /\ ExtInit

Next ==
    \/ \E name \in Names : Import(name)
    \/ LoadModuleImport
    \/ BodyReturn
    \/ LoadModuleFinish
    \/ \E name \in Names : LoadModuleUnmatched(name)

Spec == Init /\ [][Next]_vars

\* The interpreter runs one thread to completion: a module body that can
\* return and a load_module call that can go on eventually do.
SpecLive ==
    /\ Spec
    /\ WF_vars(BodyReturn)
    /\ WF_vars(LoadModuleImport)
    /\ WF_vars(LoadModuleFinish)

(***************************************************************************)
(* SpecBoot: one process entering bootstrap from any environment.          *)
(***************************************************************************)
InitBoot ==
    /\ ImportInit
    /\ platform \in Platforms
    /\ \E e1 \in Environs({"SSL_CERT_DIR", "SSL_CERT_FILE"}, StrValues),
          e2 \in Environs({"RELENV_CROSS"}, CrossValues) : environ = e1 @@ e2
    /\ environ0 = environ
    /\ sys_prefix = <<"/", "opt">>
    /\ sys_exec_prefix = <<"/", "opt">>
    /\ sys_path \in SysPaths
    /\ meta_path = DefaultFinders
    /\ boot = "start"
    /\ which_calls = 0
    /\ run_calls = 0
    /\ ret = NoRet
    /\ ExtInit

NextBoot ==
    \E found \in BOOLEAN, returncode \in {0, 1}, stdout \in Stdouts,
       cert_exists \in BOOLEAN :
        Bootstrap(found, returncode, stdout, cert_exists)

SpecBoot == InitBoot /\ [][NextBoot]_vars

(***************************************************************************)
(* The patched sysconfig accessors                                         *)
(***************************************************************************)
\* dirs.prefix of the windows build.
WinBuildPrefix == <<"C:\\", "relenv">>

\* build/windows.py finalize: the directory the runtime is installed into.
finalize_sitepackages(prefix) == JoinPath(JoinPath(prefix, "Lib"), "site-packages")

\* relenv.common.install_runtime: the package lands in <sitepackages>/relenv.
install_runtime(sitepackages) == JoinPath(sitepackages, "relenv")

\* relenv.common.MODULE_DIR: the directory of the installed relenv package.
MODULE_DIR(plat) ==
    IF plat = "win32"
    THEN install_runtime(finalize_sitepackages(WinBuildPrefix))
    ELSE <<"/", "opt", "relenv", "lib", Pyver, "site-packages", "relenv">>

\* relenv_root ascending four levels on every platform.
relenv_root_same_depth(plat) ==
    Parent(Parent(Parent(Parent(MODULE_DIR(plat)))))

relenv_root(plat) ==
    IF plat = "win32"
    THEN Parent(Parent(Parent(MODULE_DIR(plat))))
    ELSE Parent(Parent(Parent(Parent(MODULE_DIR(plat)))))

\* The RELENV_PIP_DIR test of each patch.
config_var_mode(env) == Truthy(env, "RELENV_PIP_DIR")

get_paths_mode(env) == InEnviron(env, "RELENV_PIP_DIR")

shebang_mode(env) == Truthy(env, "RELENV_PIP_DIR")

OnOff(b) == IF b THEN "on" ELSE "off"

\* get_config_var_wrapper(func).wrapped(name), orig being func(name).
get_config_var_wrapped(orig, name, env, plat) ==
    IF name = "BINDIR" THEN
        IF config_var_mode(env)
        THEN relenv_root(plat)
        ELSE JoinPath(relenv_root(plat), "Scripts")
    ELSE orig

\* get_paths_wrapper(func, scheme).wrapped(), paths being func(...): the
\* returned mapping and the resulting sys.exec_prefix.
get_paths_wrapped(paths, env, plat, exec_prefix) ==
    IF get_paths_mode(env)
    THEN [paths |-> [paths EXCEPT !.scripts = relenv_root(plat)],
          exec_prefix |-> relenv_root(plat)]
    ELSE [paths |-> paths, exec_prefix |-> exec_prefix]

ConfigVarNames == {"BINDIR", "LIBDIR", "prefix"}

\* Values the original get_config_var may report.
OrigValues == {<<"/", "build", "bin">>, <<"/", "build", "lib">>, EmptyStr}

\* Mappings the original get_paths may report.
OrigPaths ==
    [scripts : {<<"/", "build", "bin">>, <<"/", "build", "Scripts">>},
     purelib : {<<"/", "build", "lib", Pyver, "site-packages">>},
     include : {<<"/", "build", "include">>, <<"/", "usr", "include">>}]

\* sysconfig.get_config_var(name) through the wrapper.
CallGetConfigVar(name, orig) ==
    /\ ret' = [fn |-> "get_config_var", name |-> name, orig |-> orig,
               val |-> get_config_var_wrapped(orig, name, environ, platform),
               exec_before |-> sys_exec_prefix]
    /\ branch' = IF name = "BINDIR"
                 THEN [branch EXCEPT !.get_config_var = OnOff(config_var_mode(environ))]
                 ELSE branch
    /\ UNCHANGED <<importVars, procVars, include_dirs, calls, inst>>

\* sysconfig.get_paths() through the wrapper.
CallGetPaths(paths) ==
    LET r == get_paths_wrapped(paths, environ, platform, sys_exec_prefix)
    IN  /\ ret' = [fn |-> "get_paths", name |-> "", orig |-> paths,
                   val |-> r.paths, exec_before |-> sys_exec_prefix]
        /\ sys_exec_prefix' = r.exec_prefix
        /\ branch' = [branch EXCEPT !.get_paths = OnOff(get_paths_mode(environ))]
        /\ UNCHANGED <<importVars, platform, environ, environ0, sys_prefix,
                       sys_path, meta_path, boot, which_calls, run_calls,
                       include_dirs, calls, inst>>

(***************************************************************************)
(* The replacement shebang builder                                         *)
(***************************************************************************)
\* relenv.common.format_shebang: the shell preamble that runs the given
\* interpreter path relative to the directory of the script itself.
format_shebang(python) ==
    <<"#!/bin/sh", "\n", "exec $(dirname $0)">> \o python \o <<" $0 $@", "\n">>

LauncherShebang(tail) == <<"#!<launcher_dir>">> \o tail

\* _build_shebang reading RELENV_PIP_DIR by presence.
_build_shebang_present(args, env, plat) ==
    IF plat = "win32" THEN
        IF InEnviron(env, "RELENV_PIP_DIR")
        THEN LauncherShebang(<<"\\Scripts", "\\python.exe">>)
        ELSE LauncherShebang(<<"\\python.exe">>)
    ELSE IF InEnviron(env, "RELENV_PIP_DIR")
    THEN format_shebang(<<"/bin", "/python3">>)
    ELSE format_shebang(<<"/python3">>)

\* _build_shebang(*args, **kwargs).  The returned text is ASCII, which
\* str.encode() turns into the same characters as bytes.
_build_shebang(args, env, plat) ==
    IF plat = "win32" THEN
        IF shebang_mode(env)
        THEN LauncherShebang(<<"\\Scripts", "\\python.exe">>)
        ELSE LauncherShebang(<<"\\python.exe">>)
    ELSE IF shebang_mode(env)
    THEN format_shebang(<<"/bin", "/python3">>)
    ELSE format_shebang(<<"/python3">>)

\* Arguments ScriptMaker passes to _build_shebang.
ShebangArgs == {<<>>, <<"executable">>, <<"executable", "post_interp">>}

\* ScriptMaker._build_shebang(...) after the patch.
CallBuildShebang(args) ==
    /\ ret' = [fn |-> "_build_shebang", args |-> args,
               val |-> _build_shebang(args, environ, platform)]
    /\ branch' = [branch EXCEPT !.build_shebang = OnOff(shebang_mode(environ))]
    /\ UNCHANGED <<importVars, procVars, include_dirs, calls, inst>>

(***************************************************************************)
(* The build_ext.finalize_options wrapper                                  *)
(***************************************************************************)
MaxIncludeDirs == 3

\* f"{relenv_root()}/include"
IncludeDir(plat) == JoinPath(relenv_root(plat), "include")

\* The wrapper putting its entry first.
finalize_options_prepend(dirs, raised, plat) ==
    IF raised THEN dirs ELSE <<IncludeDir(plat)>> \o dirs

\* finalize_options_wrapper(func).wrapper(self): dirs is self.include_dirs
\* as func left it, raised whether func raised.
finalize_options_wrapped(dirs, raised, plat) ==
    IF raised THEN dirs ELSE Append(dirs, IncludeDir(plat))

\* Lists the original finalize_options may build from the command's options.
OrigIncludeDirs ==
    {<<>>, << <<"/", "usr", "include">> >>,
     << <<"/", "usr", "include">>, <<"/", "build", "include">> >>}

\* build_ext.finalize_options() after the patch.  The original either
\* builds the list anew or keeps the list the command already has.
CallFinalizeOptions(dirs, raised) ==
    /\ Len(dirs) < MaxIncludeDirs
    /\ include_dirs' = finalize_options_wrapped(dirs, raised, platform)
    /\ ret' = [fn |-> "finalize_options", orig |-> dirs, raised |-> raised]
    /\ UNCHANGED <<importVars, procVars, branch, calls, inst>>

\* A call of relenv_root().
CallRelenvRoot ==
    /\ ret' = [fn |-> "relenv_root", val |-> relenv_root(platform)]
    /\ UNCHANGED <<importVars, procVars, extVars>>

(***************************************************************************)
(* SpecPatch: calls of the patched accessors in any environment.           *)
(***************************************************************************)
InitPatch ==
    /\ ImportInit
    /\ platform \in Platforms
    /\ environ \in Environs({"RELENV_PIP_DIR"}, {EmptyStr, <<"1">>})
    /\ environ0 = environ
    /\ sys_prefix = <<"/", "build">>
    /\ sys_exec_prefix \in {<<"/", "build">>, relenv_root(platform)}
    /\ sys_path = << <<"/", "app">> >>
    /\ meta_path = <<"RelenvImporter">> \o DefaultFinders
    /\ boot = "done"
    /\ which_calls = 0
    /\ run_calls = 0
    /\ ret = NoRet
    /\ ExtInit

NextPatch ==
    \/ \E name \in ConfigVarNames, orig \in OrigValues : CallGetConfigVar(name, orig)
    \/ \E paths \in OrigPaths : CallGetPaths(paths)
    \/ \E args \in ShebangArgs : CallBuildShebang(args)
    \/ \E dirs \in OrigIncludeDirs \cup {include_dirs}, raised \in BOOLEAN :
            CallFinalizeOptions(dirs, raised)
    \/ CallRelenvRoot

SpecPatch == InitPatch /\ [][NextPatch]_vars

(***************************************************************************)
(* Installer post-processing: install_wheel_wrapper, install_legacy_wrapper *)
(***************************************************************************)
IsAbsolute(path) == path # <<>> /\ Head(path) = "/"

\* pathlib: path / other with other a path: an absolute other replaces path
PathDiv(path, other) == IF IsAbsolute(other) THEN other ELSE path \o other

RECURSIVE Normalize(_, _)
Normalize(done, rest) ==
    IF rest = <<>> THEN done
    ELSE IF Head(rest) = ".." THEN Normalize(Parent(done), Tail(rest))
    ELSE Normalize(Append(done, Head(rest)), Tail(rest))

\* pathlib.Path(path).resolve() with working directory cwd
ResolveFrom(cwd, path) ==
    IF IsAbsolute(path) THEN Normalize(<<"/">>, Tail(path)) ELSE Normalize(cwd, path)

NoPath == <<>>

FileNames == {"ext.so", "mod.py", "gone.so"}

\* The installed file set: a shared object, a text file, and a file the
\* manifest lists but the installer did not leave on disk.
DiskKinds ==
    [f \in FileNames |->
        IF f = "ext.so" THEN "elf" ELSE IF f = "mod.py" THEN "data" ELSE "missing"]

\* file.exists() and relocate.is_elf(file)
exists(kinds, file) == kinds[file[Len(file)]] # "missing"

is_elf(kinds, file) == kinds[file[Len(file)]] = "elf"

NoArgs == [name |-> "", setup_py_path |-> NoPath, prefix |-> NoPath,
           purelib |-> NoPath, platlib |-> NoPath]

\* The calls a wrapper makes, in order.
FuncCall(args) ==
    [fn |-> "func", args |-> args, path |-> NoPath, libdir |-> NoPath,
     write |-> FALSE, root |-> NoPath]

OpenCall(path) ==
    [fn |-> "open", args |-> NoArgs, path |-> path, libdir |-> NoPath,
     write |-> FALSE, root |-> NoPath]

HandleElf(file, libdir, write, root) ==
    [fn |-> "handle_elf", args |-> NoArgs, path |-> file, libdir |-> libdir,
     write |-> write, root |-> root]

MaxManifest == 2

\* parse_wheel(zf, name)[0]
InfoDir == "foo-1.2.dist-info"

\* A line of RECORD: path, hash and size, comma-delimited.
RecordLine(file) == <<"foo", file, ",", "sha256=0", ",", "1", "\n">>

\* The loop over RECORD of install_wheel_wrapper.
RECURSIVE wheel_record_loop(_, _, _, _)
wheel_record_loop(lines, plat, kinds, rootdir) ==
    IF lines = <<>> THEN <<>>
    ELSE LET file == PathDiv(plat, Head(Split(Head(lines), ",")))
             rest == wheel_record_loop(Tail(lines), plat, kinds, rootdir)
         IN  IF ~exists(kinds, file) THEN rest
             ELSE IF is_elf(kinds, file)
             THEN <<HandleElf(PathDiv(plat, file), JoinPath(rootdir, "lib"),
                              TRUE, rootdir)>> \o rest
             ELSE rest

\* install_wheel_wrapper(func).wrapper: the calls it makes, record being
\* the lines of RECORD.
install_wheel_wrapped(args, record, kinds, host) ==
    LET plat == args.platlib
    IN  <<FuncCall(args), OpenCall(JoinPath(JoinPath(plat, InfoDir), "RECORD"))>>
        \o wheel_record_loop(record, plat, kinds, relenv_root(host))

\* The loop over PKG-INFO of install_legacy_wrapper; an empty name or
\* version is the None it starts from.
RECURSIVE pkg_info_loop(_, _, _)
pkg_info_loop(lines, name, version) ==
    IF lines = <<>> THEN [name |-> name, version |-> version]
    ELSE LET line == Head(lines)
             value == Strip(SubSeq(line, 3, Len(line)), Whitespace)
             v == IF Head(line) = "Version:" THEN value ELSE version
             n == IF Head(line) = "Name:" THEN value ELSE name
         IN  IF Head(line) = "Version:" /\ name # <<>>
             THEN [name |-> name, version |-> v]
             ELSE IF Head(line) = "Name:" /\ v # <<>>
             THEN [name |-> n, version |-> v]
             ELSE pkg_info_loop(Tail(lines), n, v)

\* Directory entries a site directory may hold, in ascending string order,
\* and how each is spelled.
EntryOrder ==
    <<"foo-1.2-py3.10.egg-info", "foo-1.2.dist-info",
      "foo-1.20-py3.10.egg-info", "foobar-1.2-py3.10.egg-info">>

Spelling(entry) ==
    CASE entry = "foo-1.2-py3.10.egg-info" ->
            <<"foo", "-", "1", ".", "2", "-", "py3.10", ".egg-info">>
      [] entry = "foo-1.2.dist-info" ->
            <<"foo", "-", "1", ".", "2", ".dist-info">>
      [] entry = "foo-1.20-py3.10.egg-info" ->
            <<"foo", "-", "1", ".", "2", "0", "-", "py3.10", ".egg-info">>
      [] entry = "foobar-1.2-py3.10.egg-info" ->
            <<"foo", "bar", "-", "1", ".", "2", "-", "py3.10", ".egg-info">>

EntryNames == {EntryOrder[i] : i \in 1..Len(EntryOrder)}

IsEggInfo(entry) == Spelling(entry)[Len(Spelling(entry))] = ".egg-info"

\* sorted(directory.glob("*.egg-info")), as entry names
RECURSIVE SortedGlob(_, _)
SortedGlob(order, listing) ==
    IF order = <<>> THEN <<>>
    ELSE IF Head(order) \in listing /\ IsEggInfo(Head(order))
    THEN <<Head(order)>> \o SortedGlob(Tail(order), listing)
    ELSE SortedGlob(Tail(order), listing)

\* The search taking the first candidate of a directory, whatever its name.
egginfo_loop_first(names, dir, want, found) ==
    IF names = <<>> THEN found ELSE JoinPath(dir, Head(names))

\* The search loop: the first path whose name starts with want, or found
\* as it was when none does.
RECURSIVE egginfo_loop(_, _, _, _)
egginfo_loop(names, dir, want, found) ==
    IF names = <<>> THEN found
    ELSE IF StartsWith(Spelling(Head(names)), want)
    THEN JoinPath(dir, Head(names))
    ELSE egginfo_loop(Tail(names), dir, want, found)

\* prefix / "lib" / f"python{get_major_version()}" / "site-packages"
SitePack(prefix) ==
    JoinPath(JoinPath(JoinPath(prefix, "lib"), Pyver), "site-packages")

\* The entries of a directory: ls_pure those of scheme.purelib, ls_site
\* those of the prefix's site directory when that is another directory.
Listing(dir, args, ls_site, ls_pure) ==
    IF dir = args.purelib THEN ls_pure ELSE ls_site

\* The egg-info search of install_legacy_wrapper: the prefix's site
\* directory when prefix is given, then scheme.purelib.
find_egginfo(args, name, version, ls_site, ls_pure) ==
    LET want == name \o <<"-">> \o version
        sitepack == SitePack(args.prefix)
        first ==
            IF args.prefix # EmptyStr
            THEN egginfo_loop(
                     SortedGlob(EntryOrder, Listing(sitepack, args, ls_site, ls_pure)),
                     sitepack, want, NoPath)
            ELSE NoPath
    IN  egginfo_loop(
            SortedGlob(EntryOrder, Listing(args.purelib, args, ls_site, ls_pure)),
            args.purelib, want, first)

\* A line of installed-files.txt: a path relative to the egg-info directory.
InstalledLine(file) == <<"..", "foo", file, "\n">>

\* The loop over installed-files.txt of install_legacy_wrapper, run with
\* the egg-info directory as working directory.
RECURSIVE legacy_files_loop(_, _, _, _, _)
legacy_files_loop(lines, egginfo, plat, kinds, rootdir) ==
    IF lines = <<>> THEN <<>>
    ELSE LET file == ResolveFrom(egginfo, Strip(Head(lines), Whitespace))
             rest == legacy_files_loop(Tail(lines), egginfo, plat, kinds, rootdir)
         IN  IF ~exists(kinds, file) THEN rest
             ELSE IF is_elf(kinds, file)
             THEN <<HandleElf(PathDiv(plat, file), JoinPath(rootdir, "lib"),
                              TRUE, rootdir)>> \o rest
             ELSE rest

PkgInfoPath(args) == JoinPath(Parent(args.setup_py_path), "PKG-INFO")

\* install_legacy_wrapper(func).wrapper: the calls it makes, pkg_info being
\* the lines of PKG-INFO and installed those of every installed-files.txt.
install_legacy_wrapped(args, pkg_info, installed, ls_site, ls_pure, kinds, host) ==
    LET parsed  == pkg_info_loop(pkg_info, <<>>, <<>>)
        egginfo == find_egginfo(args, parsed.name, parsed.version, ls_site, ls_pure)
        head    == <<OpenCall(PkgInfoPath(args)), FuncCall(args)>>
    IN  [name |-> parsed.name, version |-> parsed.version, egginfo |-> egginfo,
         calls |->
            IF egginfo = NoPath THEN head
            ELSE head \o <<OpenCall(JoinPath(egginfo, "installed-files.txt"))>>
                 \o legacy_files_loop(installed, egginfo, args.platlib, kinds,
                                      relenv_root(host))]

(***************************************************************************)
(* SpecInstall: the two installer wrappers over any installed file set.    *)
(***************************************************************************)
RelenvPrefix == <<"/", "opt", "relenv">>

\* scheme.platlib: the interpreter's own site directory, and the one
\* `--root target` gives.
WheelPlatlibs == {SitePack(RelenvPrefix), SitePack(<<"target">>)}

LegacyPrefixes == {EmptyStr, RelenvPrefix}

LegacyPurelibs == {SitePack(RelenvPrefix), <<"/", "srv", "target">>}

SetupPy == <<"/", "tmp", "build", "setup.py">>

PkgInfos ==
    { << <<"Metadata-Version:", " ", "1", ".", "1">>,
         <<"Name:", " ", "foo">>,
         <<"Version:", " ", "1", ".", "2">> >>,
      << <<"Metadata-Version:", " ", "1", ".", "1">>,
         <<"Version:", " ", "1", ".", "2", " ">>,
         <<"Name:", " ", "foo", "bar">>,
         <<"Version:", " ", "9">> >>,
      << <<"Name:", " ", "foo">>,
         <<"Version:", " ", "1", ".", "2", "0">> >> }

Manifests == UNION {[1..n -> FileNames] : n \in 0..MaxManifest}

\* What the prefix's site directory may hold beside scheme.purelib.
SiteEntryNames == {"foo-1.2-py3.10.egg-info", "foobar-1.2-py3.10.egg-info"}

InitInstall ==
    /\ ImportInit
    /\ platform = "linux"
    /\ environ = <<>>
    /\ environ0 = environ
    /\ sys_prefix = <<"/", "build">>
    /\ sys_exec_prefix = <<"/", "build">>
    /\ sys_path = << <<"/", "app">> >>
    /\ meta_path = <<"RelenvImporter">> \o DefaultFinders
    /\ boot = "done"
    /\ which_calls = 0
    /\ run_calls = 0
    /\ ret = NoRet
    /\ include_dirs = <<>>
    /\ branch = NoBranch
    /\ calls = <<>>
    /\ inst \in [fn : {"none"}, args : {NoArgs}, kinds : {DiskKinds},
                 manifest : Manifests, ls_site : SUBSET SiteEntryNames,
                 ls_pure : SUBSET EntryNames,
                 name : {<<>>}, version : {<<>>}, egginfo : {NoPath}]

\* pip installs a wheel through the wrapped install_wheel.
CallInstallWheel(platlib) ==
    LET args == [NoArgs EXCEPT !.name = "foo", !.purelib = platlib,
                               !.platlib = platlib]
        record == [i \in DOMAIN inst.manifest |-> RecordLine(inst.manifest[i])]
    IN  /\ calls' = install_wheel_wrapped(args, record, inst.kinds, platform)
        /\ inst' = [inst EXCEPT !.fn = "install_wheel", !.args = args,
                                !.name = <<>>, !.version = <<>>,
                                !.egginfo = NoPath]
        /\ UNCHANGED <<importVars, procVars, ret, include_dirs, branch>>

\* pip installs a source distribution through the wrapped legacy install.
CallInstallLegacy(prefix, purelib, pkg_info) ==
    LET args == [NoArgs EXCEPT !.name = "foo", !.setup_py_path = SetupPy,
                               !.prefix = prefix, !.purelib = purelib,
                               !.platlib = purelib]
        installed == [i \in DOMAIN inst.manifest |-> InstalledLine(inst.manifest[i])]
        out == install_legacy_wrapped(args, pkg_info, installed, inst.ls_site,
                                      inst.ls_pure, inst.kinds, platform)
    IN  /\ calls' = out.calls
        /\ inst' = [inst EXCEPT !.fn = "install_legacy", !.args = args,
                                !.name = out.name, !.version = out.version,
                                !.egginfo = out.egginfo]
        /\ UNCHANGED <<importVars, procVars, ret, include_dirs, branch>>

NextInstall ==
    \/ \E platlib \in WheelPlatlibs : CallInstallWheel(platlib)
    \/ \E prefix \in LegacyPrefixes, purelib \in LegacyPurelibs, pkg_info \in PkgInfos :
            CallInstallLegacy(prefix, purelib, pkg_info)

SpecInstall == InitInstall /\ [][NextInstall]_vars

(***************************************************************************)
(* Properties of the importer (Spec)                                       *)
(***************************************************************************)
LoadingFrames(t) ==
    {i \in 1..Len(stack) : stack[i].op = "load_module" /\ Branch(stack[i].name) = t}

\* C1: over every sequence of find_module and load_module calls the host
\* makes, no target module has its patch applied more than once.
C1_PatchedAtMostOnce == \A m \in Names : applied[m] <= 1

\* C2: for each target, find_module returns the importer at most once per
\* load_module that has not completed yet (one match, then the load), the
\* target's flag is set for as long as its load_module is running, and a
\* find_module call made while the flag is set returns None.
C2_ProbeOnceThenGuarded ==
    /\ \A t \in Targets :
        /\ matches[t] - loads[t] \in {0, 1}
        /\ Cardinality(LoadingFrames(t)) = matches[t] - loads[t]
        /\ LoadingFrames(t) # {} => Flag(importer, t)
    /\ (last.op = "find_module" /\ last.before) => ~last.ret

\* C2 witness: every target has been matched, and the latest find_module
\* call, made for a target whose load_module is still running, returned None.
C2_GuardedProbeSeen ==
    /\ \A t \in Targets : matches[t] >= 1
    /\ last.op = "find_module"
    /\ last.before
    /\ ~last.ret
    /\ LoadingFrames(Branch(last.name)) # {}

\* C3: once load_module has completed for a target, no later find_module
\* call for a name of that target returns the importer.
C3_NoMatchAfterLoad ==
    (last.op = "find_module" /\ last.ret) => loads[Branch(last.name)] = 0

\* C4: load_module(name) returns the real module of that name, patched, and
\* leaves it in sys.modules under that name.
C4_LoadsRealModuleOfName ==
    last.op = "load_module" =>
        /\ last.mod = last.name
        /\ modules[last.name] = last.name
        /\ applied[last.name] >= 1

(***************************************************************************)
(* Properties of bootstrap (SpecBoot)                                      *)
(***************************************************************************)
TrustStoreVars == {"SSL_CERT_DIR", "SSL_CERT_FILE"}

\* C5: when bootstrap has ended, each trust-store variable that was in the
\* environment at its start, with any value, still has that value.
C5_CallerEnvPreserved ==
    boot # "start" =>
        \A k \in TrustStoreVars :
            InEnviron(environ0, k) => InEnviron(environ, k) /\ environ[k] = environ0[k]

\* C6: bootstrap never ends by raising, whatever trust-store discovery meets.
C6_BootstrapNeverRaises == boot # "raised"

\* C7: when bootstrap has ended, sys.meta_path is a new RelenvImporter
\* followed by the previous finders in their previous order.
C7_ImporterInstalledFirst ==
    boot # "start" =>
        /\ meta_path = <<"RelenvImporter">> \o DefaultFinders
        /\ importer = RelenvImporter

\* C8: when both trust-store variables were set at the start of bootstrap,
\* or the platform is win32, bootstrap has looked up no certificate tool and
\* run no subprocess.
C8_NoDiscoveryWhenPreset ==
    (/\ boot # "start"
     /\ \/ \A k \in TrustStoreVars : InEnviron(environ0, k)
        \/ platform = "win32")
    => which_calls = 0 /\ run_calls = 0

\* C8 witness: bootstrap returned off win32 with both variables preset (the
\* directory one to the empty string) and made no lookup.
C8_PresetSkipsDiscovery ==
    /\ boot = "done"
    /\ platform = "linux"
    /\ \A k \in TrustStoreVars : InEnviron(environ0, k)
    /\ environ0["SSL_CERT_DIR"] = EmptyStr
    /\ which_calls = 0
    /\ run_calls = 0

(***************************************************************************)
(* Properties of the patched accessors (SpecPatch)                         *)
(***************************************************************************)
\* Package-manager-directory mode as get_config_var's wrapper and
\* _build_shebang read it: RELENV_PIP_DIR set to a non-empty value.
PipDirMode == Truthy(environ, "RELENV_PIP_DIR")

\* C9: the wrapped get_config_var returns, for BINDIR, the Relocated Root
\* with the mode on, and with the mode off the Relocated Root on the unix
\* layout and Relocated Root/Scripts on win32; for any other name it
\* returns what the original returns.
C9_BindirByLayoutAndMode ==
    ret.fn = "get_config_var" =>
        IF ret.name = "BINDIR"
        THEN ret.val = IF PipDirMode THEN relenv_root(platform)
                       ELSE IF platform = "win32"
                            THEN JoinPath(relenv_root(platform), "Scripts")
                            ELSE relenv_root(platform)
        ELSE ret.val = ret.orig

\* C10: the wrapped get_paths returns the original mapping with, when the
\* mode is on, "scripts" replaced by the Relocated Root and sys.exec_prefix
\* set to it; with the mode off the mapping and sys.exec_prefix are as they
\* were.
C10_ScriptsOverrideOnlyInMode ==
    ret.fn = "get_paths" =>
        IF PipDirMode
        THEN /\ ret.val = [ret.orig EXCEPT !.scripts = relenv_root(platform)]
             /\ sys_exec_prefix = relenv_root(platform)
        ELSE /\ ret.val = ret.orig
             /\ sys_exec_prefix = ret.exec_before

\* C11: the replacement shebang builder returns, whatever its arguments,
\* '#!<launcher_dir>\Scripts\python.exe' on win32 with the mode on,
\* '#!<launcher_dir>\python.exe' on win32 with the mode off, and elsewhere
\* the relative form of '/bin/python3' with the mode on and of '/python3'
\* with the mode off.
C11_ShebangTable ==
    ret.fn = "_build_shebang" =>
        ret.val =
            CASE platform = "win32" /\ PipDirMode ->
                    <<"#!<launcher_dir>", "\\Scripts", "\\python.exe">>
              [] platform = "win32" /\ ~PipDirMode ->
                    <<"#!<launcher_dir>", "\\python.exe">>
              [] platform # "win32" /\ PipDirMode ->
                    format_shebang(<<"/bin", "/python3">>)
              [] OTHER -> format_shebang(<<"/python3">>)

\* C11 witness: the builder was called with arguments off win32 while
\* RELENV_PIP_DIR is set to the empty string, and answered with the mode-off
\* form.
C11_ShebangModeOffSeen ==
    /\ ret.fn = "_build_shebang"
    /\ ret.args # <<>>
    /\ platform = "linux"
    /\ InEnviron(environ, "RELENV_PIP_DIR")
    /\ ~PipDirMode
    /\ ret.val = format_shebang(<<"/python3">>)

\* C15: relenv_root returns MODULE_DIR ascended exactly three levels on
\* win32 and exactly four elsewhere, the same path at every call of a
\* process, and on win32 the prefix the windows build installed the runtime
\* under (prefix/Lib/site-packages/relenv).
C15_RootByLayoutDepth ==
    ret.fn = "relenv_root" =>
        LET dir == MODULE_DIR(platform)
            up  == IF platform = "win32" THEN 3 ELSE 4
        IN  /\ Len(dir) > up
            /\ ret.val = SubSeq(dir, 1, Len(dir) - up)
            /\ platform = "win32" => ret.val = WinBuildPrefix

\* C15 witness: relenv_root was called on win32, after a wrapped get_paths
\* call had moved sys.exec_prefix, and returned the build's prefix.
C15_WindowsRootSeen ==
    /\ ret.fn = "relenv_root"
    /\ platform = "win32"
    /\ branch.get_paths = "on"
    /\ ret.val = WinBuildPrefix

\* C16: a call of the wrapped finalize_options leaves include_dirs as the
\* original left it followed by exactly one new last entry, the Relocated
\* Root's include directory; when the original raises, include_dirs is as
\* the original left it.
C16_IncludeDirAppendedLast ==
    ret.fn = "finalize_options" =>
        IF ret.raised
        THEN include_dirs = ret.orig
        ELSE /\ Len(include_dirs) = Len(ret.orig) + 1
             /\ SubSeq(include_dirs, 1, Len(ret.orig)) = ret.orig
             /\ include_dirs[Len(include_dirs)] = JoinPath(relenv_root(platform), "include")

\* C16 witness: a second call on a list that already ended with the
\* Relocated Root's include directory appended one more entry.
C16_SecondAppendSeen ==
    /\ ret.fn = "finalize_options"
    /\ ~ret.raised
    /\ Len(ret.orig) >= 2
    /\ ret.orig[Len(ret.orig)] = JoinPath(relenv_root(platform), "include")
    /\ Len(include_dirs) = Len(ret.orig) + 1

\* C19: the configuration-variable wrapper, the path-set wrapper and the
\* shebang builder take the same RELENV_PIP_DIR branch, whether the variable
\* is unset, empty or non-empty.
C19_PatchesAgreeOnMode ==
    \A f, g \in DOMAIN branch :
        (branch[f] # "none" /\ branch[g] # "none") => branch[f] = branch[g]

MentionsSitePackages(entry) == \E i \in 1..Len(entry) : entry[i] = "site-packages"

LoadDepth == Cardinality({i \in 1..Len(stack) : stack[i].op = "load_module"})

\* C17: load_module calls never nest deeper than the number of targets, no
\* target has two load_module calls running at once, and every import that
\* was started comes to its end.
C17_BoundedNestingTerminates ==
    /\ [](/\ LoadDepth <= Cardinality(Targets)
          /\ \A t \in Targets : Cardinality(LoadingFrames(t)) <= 1)
    /\ (stack # <<>>) ~> (stack = <<>>)

\* C17 witness: load_module calls of all five targets are nested in one
\* another, the innermost one having asked for its real module while its
\* flag is set.
C17_FullNestingSeen ==
    /\ LoadDepth = Cardinality(Targets)
    /\ last.op = "find_module"
    /\ last.before
    /\ ~last.ret

\* C20: every load_module call the host makes after a find_module match
\* runs a target branch and stores and returns a bound module; a
\* load_module call fails only for a name that matches no target, and that
\* failure changes neither sys.modules nor the importer's flags.
C20_LoadBoundUnderProtocol ==
    /\ [](/\ \A i \in 1..Len(stack) :
                stack[i].op = "load_module" => Branch(stack[i].name) # "none"
          /\ last.op = "load_module" =>
                last.mod # NoModule /\ modules[last.name] = last.mod
          /\ last.op = "load_module_error" => Branch(last.name) = "none")
    /\ [][last'.op = "load_module_error" => UNCHANGED <<modules, importer>>]_vars

\* C20 witness: a load_module call for a name that is no target has just
\* failed, after load_module had completed for all five targets.
C20_UnmatchedLoadFailed ==
    /\ last.op = "load_module_error"
    /\ last.name = SYS
    /\ \A t \in Targets : loads[t] >= 1

(***************************************************************************)
(* Properties of the installer wrappers (SpecInstall)                      *)
(***************************************************************************)
FuncCalls == {i \in 1..Len(calls) : calls[i].fn = "func"}

Rewrites == {i \in 1..Len(calls) : calls[i].fn = "handle_elf"}

\* Manifest entries that exist on disk and are dynamically linked.
Rewritable == {i \in 1..Len(inst.manifest) : inst.kinds[inst.manifest[i]] = "elf"}

\* The original is called once, with the wrapper's arguments, before any
\* rewrite.
OriginalFirst ==
    /\ Cardinality(FuncCalls) = 1
    /\ \A i \in FuncCalls :
          /\ calls[i].args = inst.args
          /\ \A j \in Rewrites : i < j

\* Each rewritable manifest entry has one rewrite call, made for the file
\* at[f], and nothing else has any.
RewrittenOncePer(at) ==
    /\ Cardinality(Rewrites) = Cardinality(Rewritable)
    /\ \A f \in FileNames :
          Cardinality({j \in Rewrites : calls[j].path = at[f]})
              = Cardinality({i \in Rewritable : inst.manifest[i] = f})
    /\ \A j \in Rewrites :
          /\ calls[j].libdir = JoinPath(relenv_root(platform), "lib")
          /\ calls[j].write
          /\ calls[j].root = relenv_root(platform)

\* The file a RECORD entry names: its relative path under scheme.platlib.
WheelFile(f) == inst.args.platlib \o <<"foo", f>>

\* C12: install_wheel's wrapper calls the original once, first and with its
\* own arguments, then calls handle_elf once per RECORD entry that exists
\* and is an ELF file, with (that file, root/lib, True, root), and for no
\* other entry, missing entries being passed over.
C12_WheelRewritesEachBinary ==
    inst.fn = "install_wheel" => /\ OriginalFirst
        /\ RewrittenOncePer([f \in FileNames |-> WheelFile(f)])

SearchedDirs ==
    (IF inst.args.prefix # EmptyStr THEN {SitePack(inst.args.prefix)} ELSE {})
        \cup {inst.args.purelib}

\* The metadata directories in dir whose name starts with "<name>-<version>".
MatchesIn(dir) ==
    {JoinPath(dir, e) : e \in
        {e \in (IF dir = inst.args.purelib THEN inst.ls_pure ELSE inst.ls_site) :
            /\ IsEggInfo(e)
            /\ StartsWith(Spelling(e), inst.name \o <<"-">> \o inst.version)}}

Matches == UNION {MatchesIn(dir) : dir \in SearchedDirs}

\* The installed-files manifests the wrapper has opened.
ManifestsOpened ==
    {calls[i].path : i \in {i \in 1..Len(calls) :
        calls[i].fn = "open" /\ calls[i].path # PkgInfoPath(inst.args)}}

\* The file an installed-files.txt entry of the metadata directory egg names.
LegacyFile(egg, f) == Parent(egg) \o <<"foo", f>>

\* C13: install_legacy's wrapper, with exactly one metadata directory of
\* the searched site directories named "<name>-<version>...", processes
\* that directory's installed-files.txt and no other, calling handle_elf
\* once per existing ELF entry; with no such directory it returns without
\* any handle_elf call.
C13_LegacyProcessesTheMatch ==
    inst.fn = "install_legacy" =>
        /\ OriginalFirst
        /\ \A egg \in Matches :
              Matches = {egg} =>
                  /\ inst.egginfo = egg
                  /\ ManifestsOpened = {JoinPath(egg, "installed-files.txt")}
                  /\ RewrittenOncePer([f \in FileNames |-> LegacyFile(egg, f)])
        /\ Matches = {} =>
              /\ inst.egginfo = NoPath
              /\ ManifestsOpened = {}
              /\ Rewrites = {}

\* C13 witness: the one matching metadata directory sorts after another
\* candidate of its directory, and an ELF entry of its manifest has been
\* rewritten while a missing one was passed over.
C13_SingleMatchProcessed ==
    /\ inst.fn = "install_legacy"
    /\ Cardinality(Matches) = 1
    /\ Cardinality(inst.ls_pure) >= 2
    /\ inst.egginfo = JoinPath(inst.args.purelib, "foobar-1.2-py3.10.egg-info")
    /\ Rewrites # {}
    /\ \E i \in 1..Len(inst.manifest) : inst.manifest[i] = "gone.so"

\* C18: when the prefix's site directory and scheme.purelib are two
\* directories that both hold a matching metadata directory, the wrapper
\* processes the manifest of the one in the prefix's site directory.
C18_VersionSpecificMatchWins ==
    ( /\ inst.fn = "install_legacy"
      /\ inst.args.prefix # EmptyStr
      /\ SitePack(inst.args.prefix) # inst.args.purelib
      /\ MatchesIn(SitePack(inst.args.prefix)) # {}
      /\ MatchesIn(inst.args.purelib) # {} )
    => /\ inst.egginfo \in MatchesIn(SitePack(inst.args.prefix))
       /\ ManifestsOpened = {JoinPath(inst.egginfo, "installed-files.txt")}

====
